---- MODULE Spec2Model ----
(***************************************************************************)
(* Model of the household-ledger API of src/app/main.py: the in-memory     *)
(* Store (DATA), the snapshot file data.json, the request handlers and the *)
(* process lifecycle.                                                      *)
(*                                                                         *)
(* Python values are modelled as records [t, n, s]: t is the Python type,  *)
(* n the value of an int, s the characters of a str.  A str is a sequence  *)
(* of one-character strings, so that comparison, prefix tests, pattern     *)
(* matching and number parsing are computed character by character.  A     *)
(* dict is a function from its keys to values; an absent key is absent     *)
(* from the function's domain.  The Japanese literals of the source are    *)
(* written character by character, each character as its reading.          *)
(***************************************************************************)
EXTENDS Integers, Sequences, FiniteSets, TLC

VARIABLES
  DATA,     \* main.py:50   the Store, a list of dicts
  file,     \* data.json:   absent, unreadable, or the text save_data wrote
  proc,     \* the process: "new", "running", "stopped" (graceful), "crashed",
            \* or "damaged" (down, and data.json was removed or damaged since)
  born,     \* ids generated by uuid4 since the process started, of entries
            \* still in the Store
  req,      \* the request answered last
  resp,     \* the response sent last
  pc,       \* event loop: position of each in-flight request's coroutine
  frame,    \* event loop: locals of each in-flight create_entries call
  running   \* event loop: the request whose coroutine holds the loop, or 0

vars == <<DATA, file, proc, born, req, resp, pc, frame, running>>

(***************************************************************************)
(* Bounds of the model.                                                    *)
(***************************************************************************)
\* Stands for the 10_000 of main.py:108-109, scaled down; it stays above
\* the 9 records of seed_sample, as 10_000 does.
Limit == 10
\* seed_sample is not issued when it would grow the Store beyond MaxStore.
MaxStore == 12
\* Number of distinct uuid4 values available.
MaxUuid == 14
\* Longest request body of POST /entries.
MaxBatch == 2
\* Clients post no entries while the Store holds MaxPosted posted entries.
MaxPosted == 2
\* Number of requests that can be in flight on the event loop.
NumReqs == 2

(***************************************************************************)
(* Python values.                                                          *)
(***************************************************************************)
PyNone == [t |-> "none", n |-> 0, s |-> <<>>]
PyInt(k) == [t |-> "int", n |-> k, s |-> <<>>]
PyStr(chars) == [t |-> "str", n |-> 0, s |-> chars]
\* An int beyond the range of a float, such as 10**400 in a JSON body.
BigInt == [t |-> "bigint", n |-> 0, s |-> <<>>]

\* Python truthiness, as used by `not x`, `if x` and `x or 0`.
Truthy(v) ==
  CASE v.t = "none" -> FALSE
    [] v.t = "int" -> v.n # 0
    [] v.t = "str" -> Len(v.s) > 0
    [] OTHER -> TRUE

\* dict.get(key, default)
Get(d, key, default) == IF key \in DOMAIN d THEN d[key] ELSE default

\* dict.setdefault(key, value), returning the dict
SetDefault(d, key, value) == IF key \in DOMAIN d THEN d ELSE (key :> value) @@ d

(***************************************************************************)
(* Characters and strings.                                                 *)
(***************************************************************************)
DigitChars == <<"0", "1", "2", "3", "4", "5", "6", "7", "8", "9">>

\* The characters of the model in code point order.
Alphabet == <<"-", ".">> \o DigitChars \o <<"a", "b", "c", "u", "x">>

Ord(c) == CHOOSE i \in 1..Len(Alphabet) : Alphabet[i] = c

IsDigit(c) == \E i \in 1..10 : DigitChars[i] = c

DigitVal(c) == (CHOOSE i \in 1..10 : DigitChars[i] = c) - 1

\* str < str: lexicographic comparison by code point
RECURSIVE StrLess(_, _)
StrLess(a, b) ==
  IF Len(b) = 0 THEN FALSE
  ELSE IF Len(a) = 0 THEN TRUE
  ELSE IF Head(a) # Head(b) THEN Ord(Head(a)) < Ord(Head(b))
  ELSE StrLess(Tail(a), Tail(b))

\* str.startswith(prefix)
StartsWith(a, prefix) ==
  /\ Len(prefix) <= Len(a)
  /\ SubSeq(a, 1, Len(prefix)) = prefix

\* the decimal digits of a natural number
RECURSIVE Digits(_)
Digits(k) == IF k < 10 THEN <<DigitChars[k + 1]>>
             ELSE Digits(k \div 10) \o <<DigitChars[(k % 10) + 1]>>

\* the natural number written by a non-empty sequence of digits
RECURSIVE DigitsVal(_)
DigitsVal(ds) == IF Len(ds) = 0 THEN 0
                 ELSE 10 * DigitsVal(SubSeq(ds, 1, Len(ds) - 1)) + DigitVal(ds[Len(ds)])

AllDigits(ds) == Len(ds) > 0 /\ \A i \in 1..Len(ds) : IsDigit(ds[i])

\* float(v).  The floats of the model are integral and exactly representable,
\* so a float is modelled by its integer value.  The strings of the model
\* hold no fraction, exponent, inf or nan.
ToFloat(v) ==
  CASE v.t = "int" -> [err |-> "none", val |-> v.n]
    [] v.t = "bigint" -> [err |-> "OverflowError", val |-> 0]
    [] v.t = "str" ->
         IF AllDigits(v.s) THEN [err |-> "none", val |-> DigitsVal(v.s)]
         ELSE IF Len(v.s) > 1 /\ Head(v.s) = "-" /\ AllDigits(Tail(v.s))
              THEN [err |-> "none", val |-> 0 - DigitsVal(Tail(v.s))]
         ELSE [err |-> "ValueError", val |-> 0]
    [] OTHER -> [err |-> "TypeError", val |-> 0]

\* str(x) of an integral float x
FloatStr(x) == (IF x < 0 THEN <<"-">> \o Digits(0 - x) ELSE Digits(x)) \o <<".", "0">>

\* str(round(h / 100, 2)) for a float that is h hundredths
HundredthsStr(h) ==
  Digits(h \div 100) \o <<".">> \o
    (IF h % 10 = 0 THEN <<DigitChars[((h % 100) \div 10) + 1]>>
     ELSE <<DigitChars[((h % 100) \div 10) + 1], DigitChars[(h % 10) + 1]>>)

\* re.match(r"^\d{4}-\d{2}-\d{2}$", date_str).  The newline that $ admits at
\* the end is not among the characters of the model.
_is_valid_date_format(date_str) ==
  /\ Len(date_str) = 10
  /\ \A i \in {1, 2, 3, 4, 6, 7, 9, 10} : IsDigit(date_str[i])
  /\ date_str[5] = "-"
  /\ date_str[8] = "-"

(***************************************************************************)
(* Lists.                                                                  *)
(***************************************************************************)
\* xs[-k:]
LastN(xs, k) == IF Len(xs) <= k THEN xs ELSE SubSeq(xs, Len(xs) - k + 1, Len(xs))

RECURSIVE SumSeq(_)
SumSeq(xs) == IF Len(xs) = 0 THEN 0 ELSE Head(xs) + SumSeq(Tail(xs))

Range(xs) == {xs[i] : i \in 1..Len(xs)}

(***************************************************************************)
(* The snapshot file (main.py:56-75).  json.dump writes a str as a string, *)
(* an int as its decimal literal and None as null; json.load reads them    *)
(* back.                                                                   *)
(***************************************************************************)
\* The decimal literal of 10**400 is not spelled out.
BigLiteral == <<"1", "0", ".", ".", ".", "0">>

JsonOf(v) ==
  CASE v.t = "str" -> [j |-> "string", text |-> v.s]
    [] v.t = "int" -> [j |-> "number",
                       text |-> IF v.n < 0 THEN <<"-">> \o Digits(0 - v.n) ELSE Digits(v.n)]
    [] v.t = "bigint" -> [j |-> "number", text |-> BigLiteral]
    [] OTHER -> [j |-> "null", text |-> <<"n", "u", "l", "l">>]

PyOf(json) ==
  CASE json.j = "string" -> PyStr(json.text)
    [] json.j = "number" ->
         IF json.text = BigLiteral THEN BigInt
         ELSE IF Head(json.text) = "-" THEN PyInt(0 - DigitsVal(Tail(json.text)))
         ELSE PyInt(DigitsVal(json.text))
    [] OTHER -> PyNone

\* json.dump(DATA, fp, ensure_ascii=False, indent=2)
JsonDump(data) == [i \in 1..Len(data) |-> [k \in DOMAIN data[i] |-> JsonOf(data[i][k])]]

\* json.load(fp)
JsonLoad(text) == [i \in 1..Len(text) |-> [k \in DOMAIN text[i] |-> PyOf(text[i][k])]]

NoFile == [kind |-> "absent", text |-> <<>>]
CorruptFile == [kind |-> "corrupt", text |-> <<>>]

\* load_data with DATA assigned as a local: the Store stays []
load_data_local(f) == <<>>

\* load_data: the Store after startup.  DATA is [] when the module is loaded.
load_data(f) ==
  IF f.kind # "absent"
  THEN IF f.kind = "json" THEN JsonLoad(f.text) ELSE <<>>
  ELSE <<>>

\* save_data: the file after shutdown
save_data(data) == [kind |-> "json", text |-> JsonDump(data)]

(***************************************************************************)
(* uuid4.  A generated id is one that nothing in the Store or in the       *)
(* snapshot file holds.                                                    *)
(***************************************************************************)
Uuid(k) == PyStr(<<"u">> \o Digits(k))

IdsOf(data) == {Get(data[i], "id", PyNone) : i \in 1..Len(data)}

FreeUuids(data) == {k \in 1..MaxUuid : Uuid(k) \notin IdsOf(data) \cup IdsOf(load_data(file))}

uuid4(data) == Uuid(CHOOSE k \in FreeUuids(data) : \A m \in FreeUuids(data) : k <= m)

(***************************************************************************)
(* Responses.                                                              *)
(***************************************************************************)
NoResponse == [status |-> 0, body |-> <<>>]

\* raise HTTPException(code, detail)
HTTPException(code, detail) == [status |-> code, body |-> [detail |-> detail]]

\* global_exception_handler (main.py:289-291)
global_exception_handler(exc) ==
  [status |-> 500, body |-> [message |-> <<"Unexpected error: ", exc>>]]

Ok(body) == [status |-> 200, body |-> body]

(***************************************************************************)
(* create_entries (main.py:94-111)                                         *)
(***************************************************************************)
\* main.py:27, 102  (mi-bun-rui)
Uncategorized == PyStr(<<"mi", "bun", "rui">>)

\* main.py:100
MissingRequired(entry) ==
  \/ ~Truthy(Get(entry, "date", PyNone))
  \/ ~Truthy(Get(entry, "amount", PyNone))

\* main.py:99, 102-103: the entry as it is appended
Completed(entry, data) ==
  SetDefault(SetDefault(SetDefault(entry, "id", uuid4(data)),
                        "category", Uncategorized),
             "description", PyStr(<<>>))

\* the trim keeping the oldest entries, DATA[:10_000]
Trim_keeps_oldest(data) == IF Len(data) > Limit THEN SubSeq(data, 1, Limit) ELSE data

\* main.py:108-109
Trim(data) == IF Len(data) > Limit THEN LastN(data, Limit) ELSE data

\* main.py:98-105: the loop from entry i on; raised is TRUE when it stopped
\* at the HTTPException of line 101
RECURSIVE CreateLoop(_, _, _, _)
CreateLoop(data, entries, i, created) ==
  IF i > Len(entries) THEN [data |-> data, created |-> created, raised |-> FALSE]
  ELSE IF MissingRequired(entries[i])
       THEN [data |-> data, created |-> created, raised |-> TRUE]
       ELSE LET entry == Completed(entries[i], data)
            IN CreateLoop(Append(data, entry), entries, i + 1, Append(created, entry))

\* main.py:101
CreateRaised == HTTPException(400, "date to amount wa hissu desu")

\* main.py:111
CreateReturned(created) ==
  Ok([status |-> "success", created |-> Len(created), entries |-> created])

create_entries(data, entries) ==
  LET loop == CreateLoop(data, entries, 1, <<>>)
  IN IF loop.raised
     THEN [data |-> loop.data, resp |-> CreateRaised]
     ELSE [data |-> Trim(loop.data), resp |-> CreateReturned(loop.created)]

(***************************************************************************)
(* create_entries_csv (main.py:113-118).  An uploaded file is its bytes'   *)
(* decodability, its header row and its data rows of cells.                *)
(***************************************************************************)
\* csv.DictReader: a row as a dict from the header's names to its cells
DictRow(header, cells) == [k \in Range(header) |->
                             PyStr(cells[CHOOSE i \in 1..Len(header) : header[i] = k])]

DictReader(upload) == [i \in 1..Len(upload.rows) |-> DictRow(upload.header, upload.rows[i])]

create_entries_csv(data, upload) ==
  IF ~upload.decodable
  THEN [data |-> data, resp |-> global_exception_handler("UnicodeDecodeError")]
  ELSE create_entries(data, DictReader(upload))

(***************************************************************************)
(* filter_entries (main.py:120-175).  The query parameters are None or a   *)
(* str; the dates of the entries are strs.                                 *)
(***************************************************************************)
\* the date bounds taken as exclusive
Matches_exclusive(entry, date_from, date_to, category) ==
  /\ ~(Truthy(date_from) /\ ~StrLess(date_from.s, Get(entry, "date", PyStr(<<>>)).s))
  /\ ~(Truthy(date_to) /\ ~StrLess(Get(entry, "date", PyStr(<<>>)).s, date_to.s))
  /\ ~(Truthy(category) /\ Get(entry, "category", PyNone) # category)

\* main.py:137-143
Matches(entry, date_from, date_to, category) ==
  /\ ~(Truthy(date_from) /\ StrLess(Get(entry, "date", PyStr(<<>>)).s, date_from.s))
  /\ ~(Truthy(date_to) /\ StrLess(date_to.s, Get(entry, "date", PyStr(<<>>)).s))
  /\ ~(Truthy(category) /\ Get(entry, "category", PyNone) # category)

\* main.py:135-144
Filtered(data, date_from, date_to, category) ==
  SelectSeq(data, LAMBDA entry : Matches(entry, date_from, date_to, category))

\* main.py:150-152 and 162-164: the float an entry adds, "skip" when the
\* amount is None or "", or the exception float() raises
AmountTerm(entry) ==
  LET amount_value == Get(entry, "amount", PyInt(0))
  IN IF amount_value # PyNone /\ amount_value # PyStr(<<>>)
     THEN ToFloat(amount_value)
     ELSE [err |-> "skip", val |-> 0]

\* main.py:153 and 166: except (ValueError, TypeError)
Caught(err) == err \in {"ValueError", "TypeError"}

\* main.py:147-155: the sum, or the exception that leaves the loop
RECURSIVE TotalAmount(_, _)
TotalAmount(entries, total_amount) ==
  IF Len(entries) = 0 THEN [err |-> "none", val |-> total_amount]
  ELSE LET term == AmountTerm(Head(entries))
       IN IF term.err = "none" THEN TotalAmount(Tail(entries), total_amount + term.val)
          ELSE IF term.err = "skip" \/ Caught(term.err)
               THEN TotalAmount(Tail(entries), total_amount)
          ELSE [err |-> term.err, val |-> 0]

\* A dict in insertion order: a sequence of [key, value].
DictKeys(dict) == {dict[i].key : i \in 1..Len(dict)}

DictGet(dict, key, default) ==
  IF key \in DictKeys(dict)
  THEN dict[CHOOSE i \in 1..Len(dict) : dict[i].key = key].value
  ELSE default

DictSet(dict, key, value) ==
  IF key \in DictKeys(dict)
  THEN [i \in 1..Len(dict) |-> IF dict[i].key = key THEN [key |-> key, value |-> value]
                                                     ELSE dict[i]]
  ELSE Append(dict, [key |-> key, value |-> value])

\* main.py:158-168
RECURSIVE CategorySums(_, _)
CategorySums(entries, categories) ==
  IF Len(entries) = 0 THEN [err |-> "none", val |-> categories]
  ELSE LET cat == Get(Head(entries), "category", Uncategorized)
           term == AmountTerm(Head(entries))
       IN IF term.err = "none"
          THEN CategorySums(Tail(entries),
                            DictSet(categories, cat, DictGet(categories, cat, 0) + term.val))
          ELSE IF term.err = "skip" \/ Caught(term.err)
               THEN CategorySums(Tail(entries), categories)
          ELSE [err |-> term.err, val |-> <<>>]

\* main.py:128-175: the response
EntrySummary(data, date_from, date_to, category) ==
  IF Truthy(date_from) /\ ~_is_valid_date_format(date_from.s)
  THEN HTTPException(400, "date_from must be in YYYY-MM-DD format")
  ELSE IF Truthy(date_to) /\ ~_is_valid_date_format(date_to.s)
  THEN HTTPException(400, "date_to must be in YYYY-MM-DD format")
  ELSE LET filtered_entries == Filtered(data, date_from, date_to, category)
           total_amount == TotalAmount(filtered_entries, 0)
           categories == CategorySums(filtered_entries, <<>>)
       IN IF total_amount.err # "none"
          THEN global_exception_handler(total_amount.err)
          ELSE IF categories.err # "none"
          THEN global_exception_handler(categories.err)
          ELSE Ok([total |-> Len(filtered_entries),
                   total_amount |-> FloatStr(total_amount.val),
                   categories |-> categories.val,
                   entries |-> filtered_entries])

\* filter_entries with the filtered list assigned to DATA
filter_entries_in_place(data, date_from, date_to, category) ==
  [data |-> Filtered(data, date_from, date_to, category),
   resp |-> EntrySummary(data, date_from, date_to, category)]

\* The handler reads DATA and assigns nothing to it.
filter_entries(data, date_from, date_to, category) ==
  [data |-> data, resp |-> EntrySummary(data, date_from, date_to, category)]

(***************************************************************************)
(* get_summary (main.py:208-231)                                           *)
(***************************************************************************)
\* float(e.get("amount", 0) or 0)
SummaryAmount(e) ==
  LET amount == Get(e, "amount", PyInt(0))
  IN ToFloat(IF Truthy(amount) THEN amount ELSE PyInt(0))

\* round(num / den) to the nearest integer, ties to even, for num >= 0, den > 0
RoundHalfEven(num, den) ==
  LET q == num \div den
      r == num % den
  IN IF 2 * r < den THEN q
     ELSE IF 2 * r > den THEN q + 1
     ELSE IF q % 2 = 0 THEN q ELSE q + 1

\* main.py:222.  The quotient is rounded from its exact value.
Percentage(v, total_amount) ==
  IF total_amount # 0
  THEN HundredthsStr(RoundHalfEven(v * 10000, total_amount))
  ELSE <<"0">>

\* main.py:215-217
RECURSIVE MonthlyCategories(_, _)
MonthlyCategories(monthly, categories) ==
  IF Len(monthly) = 0 THEN categories
  ELSE LET e == Head(monthly)
       IN MonthlyCategories(Tail(monthly),
            DictSet(categories, e["category"],
                    DictGet(categories, e["category"], 0) + SummaryAmount(e).val))

\* the sort without reverse=True
RECURSIVE SortedByAmountAsc(_)
SortedByAmountAsc(items) ==
  IF Len(items) = 0 THEN <<>>
  ELSE LET rest == SortedByAmountAsc(SubSeq(items, 1, Len(items) - 1))
           item == items[Len(items)]
           before == SelectSeq(rest, LAMBDA x : x.value <= item.value)
           after == SelectSeq(rest, LAMBDA x : x.value > item.value)
       IN before \o <<item>> \o after

\* sorted(categories.items(), key=lambda i: i[1], reverse=True): a stable
\* sort, so items of equal amount keep their order
RECURSIVE SortedByAmountDesc(_)
SortedByAmountDesc(items) ==
  IF Len(items) = 0 THEN <<>>
  ELSE LET rest == SortedByAmountDesc(SubSeq(items, 1, Len(items) - 1))
           item == items[Len(items)]
           before == SelectSeq(rest, LAMBDA x : x.value >= item.value)
           after == SelectSeq(rest, LAMBDA x : x.value < item.value)
       IN before \o <<item>> \o after

get_summary(data, year_month) ==
  IF Len(year_month) # 7 \/ year_month[5] # "-"
  THEN [data |-> data,
        resp |-> HTTPException(400, "year_month wa YYYY-MM keishiki de nyuuryoku shite kudasai")]
  ELSE LET monthly == SelectSeq(data, LAMBDA e : StartsWith(e["date"].s, year_month))
           raised == {i \in 1..Len(monthly) : SummaryAmount(monthly[i]).err # "none"}
           amounts == [i \in 1..Len(monthly) |-> SummaryAmount(monthly[i]).val]
           total_amount == SumSeq(amounts)
           sorted_items == SortedByAmountDesc(MonthlyCategories(monthly, <<>>))
       IN IF raised # {}
          THEN [data |-> data,
                resp |-> global_exception_handler(
                           SummaryAmount(monthly[CHOOSE i \in raised :
                                                   \A j \in raised : i <= j]).err)]
          ELSE [data |-> data,
                resp |-> Ok([year_month |-> year_month,
                             total_entries |-> Len(monthly),
                             \* sum() of no floats is the int 0
                             total_amount |-> IF Len(monthly) = 0 THEN <<"0">>
                                              ELSE FloatStr(total_amount),
                             categories |->
                               [i \in 1..Len(sorted_items) |->
                                  [category |-> sorted_items[i].key,
                                   amount |-> FloatStr(sorted_items[i].value),
                                   percentage |-> Percentage(sorted_items[i].value,
                                                             total_amount)]]])]

(***************************************************************************)
(* seed_sample (main.py:238-259)                                           *)
(***************************************************************************)
Ymd(y, m, d) ==
  Digits(y) \o <<"-">> \o (IF m < 10 THEN <<"0">> ELSE <<>>) \o Digits(m)
            \o <<"-">> \o (IF d < 10 THEN <<"0">> ELSE <<>>) \o Digits(d)

Shokuhi == <<"shoku", "hi">>
Koutsuuhi == <<"kou", "tsuu", "hi">>
Nichiyouhin == <<"nichi", "you", "hin">>
Kousaihi == <<"majiwaru", "sai", "hi">>
Kounetsuhi == <<"hikari", "netsu", "hi">>
Tsuushinhi == <<"tsuu", "shin", "hi">>

\* main.py:240-250
examples == <<
  <<Ymd(2023, 1, 15), Shokuhi, <<"su", "-", "pa", "-", "ma", "-", "ke", "xtsu", "to">>, Digits(3500)>>,
  <<Ymd(2023, 1, 20), Koutsuuhi, <<"den", "sha">>, Digits(1200)>>,
  <<Ymd(2023, 1, 25), Shokuhi, <<"re", "su", "to", "ra", "n">>, Digits(4800)>>,
  <<Ymd(2023, 2, 5), Nichiyouhin, <<"do", "ra", "xtsu", "gu", "su", "to", "a">>, Digits(2600)>>,
  <<Ymd(2023, 2, 10), Kousaihi, <<"no", "mi", "kai">>, Digits(5000)>>,
  <<Ymd(2023, 2, 15), Shokuhi, <<"ko", "n", "bi", "ni">>, Digits(800)>>,
  <<Ymd(2023, 3, 1), Kounetsuhi, <<"den", "ki", "dai">>, Digits(7200)>>,
  <<Ymd(2023, 3, 10), Tsuushinhi, <<"kei", "tai", "den", "wa">>, Digits(8000)>>,
  <<Ymd(2023, 3, 15), Shokuhi, <<"su", "-", "pa", "-", "ma", "-", "ke", "xtsu", "to">>, Digits(4200)>> >>

\* main.py:251-258 from example i on
RECURSIVE SeedLoop(_, _)
SeedLoop(data, i) ==
  IF i > Len(examples) THEN data
  ELSE SeedLoop(Append(data, [id |-> uuid4(data),
                              date |-> PyStr(examples[i][1]),
                              category |-> PyStr(examples[i][2]),
                              description |-> PyStr(examples[i][3]),
                              amount |-> PyStr(examples[i][4])]),
                i + 1)

seed_sample(data) ==
  LET seeded == SeedLoop(data, 1)
  IN [data |-> seeded,
      resp |-> Ok([status |-> "success", added |-> Len(examples), total |-> Len(seeded)])]

(***************************************************************************)
(* clear_data (main.py:267-283), health_check (main.py:90-92) and          *)
(* root_entries (main.py:77-79)                                            *)
(***************************************************************************)
\* clear_data counting the entries after DATA.clear()
clear_data_counts_after(data, confirm) ==
  IF ~confirm
  THEN [data |-> data,
        resp |-> Ok([status |-> "error",
                     message |-> <<"kakunin ga hitsuyou desu. ?confirm=true wo tsuika shite kudasai.">>])]
  ELSE [data |-> <<>>,
        resp |-> Ok([status |-> "success",
                     cleared |-> 0,
                     message |-> Digits(0) \o <<"ken no data wo sakujo shimashita">>])]

clear_data(data, confirm) ==
  IF ~confirm
  THEN [data |-> data,
        resp |-> Ok([status |-> "error",
                     message |-> <<"kakunin ga hitsuyou desu. ?confirm=true wo tsuika shite kudasai.">>])]
  ELSE LET previous_count == Len(data)
       IN [data |-> <<>>,
           resp |-> Ok([status |-> "success",
                        cleared |-> previous_count,
                        message |-> Digits(previous_count)
                                      \o <<"ken no data wo sakujo shimashita">>])]

health_check(data) ==
  [data |-> data, resp |-> Ok([status |-> "ok", data_count |-> Len(data)])]

root_entries(data) ==
  [data |-> data, resp |-> [status |-> 307, body |-> [location |-> "/entries"]]]

(***************************************************************************)
(* The requests of the model.                                              *)
(***************************************************************************)
Food == <<"f", "o", "o", "d">>

\* JSON bodies of POST /entries: entries that are accepted ...
Lunch == [date |-> PyStr(Ymd(2023, 1, 20)), category |-> PyStr(Food), amount |-> PyInt(10)]
Enormous == [id |-> PyStr(<<"x", "1">>), date |-> PyStr(Ymd(2023, 2, 10)), amount |-> BigInt]
\* ... and entries that are rejected
Free == [date |-> PyStr(Ymd(2023, 1, 20)), category |-> PyStr(Food), amount |-> PyInt(0)]
Undated == [category |-> PyStr(Food), amount |-> PyInt(5)]

RawEntries == {Lunch, Enormous, Free, Undated}

Batches == UNION {[1..k -> RawEntries] : k \in 0..MaxBatch}

\* JSON bodies of POST /
RootBatches == {<<entry>> : entry \in RawEntries}

\* Uploaded files: a row with an empty category and the amount abc, which is
\* accepted, and a row with an empty amount, which is rejected
Garbled == <<Ymd(2023, 3, 1), <<>>, <<"a", "b", "c">> >>

Uploads == {
  [decodable |-> TRUE, header |-> <<"date", "category", "amount">>,
   rows |-> <<Garbled>>],
  [decodable |-> TRUE, header |-> <<"date", "category", "amount">>,
   rows |-> <<Garbled, <<Ymd(2023, 3, 1), <<>>, <<>> >> >>],
  [decodable |-> FALSE, header |-> <<>>, rows |-> <<>>] }

\* Query parameters of GET /entries
Query(date_from, date_to, category) ==
  [date_from |-> date_from, date_to |-> date_to, category |-> category]

\* every combination of a given and a missing parameter ...
PlainQueries == [date_from : {PyNone, PyStr(Ymd(2023, 1, 20))},
                 date_to : {PyNone, PyStr(Ymd(2023, 2, 15))},
                 category : {PyNone, PyStr(Food)}]

\* ... and queries with a malformed or an empty parameter
Queries == PlainQueries \cup {
  Query(PyStr(<<"2", "0", "2", "3", "-", "2", "-", "5">>), PyNone, PyNone),
  Query(PyNone, PyStr(<<"2", "0", "2", "3", "0", "2", "1", "5">>), PyNone),
  Query(PyNone, PyStr(<<>>), PyNone),
  Query(PyNone, PyNone, PyStr(<<>>)),
  Query(PyStr(<<>>), PyStr(Ymd(2023, 2, 15)), PyStr(<<>>)) }

\* Path parameters of GET /summary/{year_month}
YearMonths == {<<"2", "0", "2", "3", "-", "0", "1">>, <<"2", "0", "2", "3", "-", "0", "3">>,
               <<"2", "0", "2", "3", "0", "1">>, <<"2", "0", "2", "3", ".", "0", "1">>}

IsExample(entry) ==
  \E i \in 1..Len(examples) :
    /\ entry["date"].s = examples[i][1]
    /\ entry["category"].s = examples[i][2]
    /\ entry["description"].s = examples[i][3]
    /\ entry["amount"] = PyStr(examples[i][4])

\* the number of posted (not seeded) entries in the Store
PostedCount(data) == Cardinality({i \in 1..Len(data) : ~IsExample(data[i])})

IsUuid(id) == \E k \in 1..MaxUuid : id = Uuid(k)

Reqs == 1..NumReqs

NoRequest == [op |-> "none", args |-> <<>>]

(***************************************************************************)
(* Requests served in one step: the handler runs from its first to its     *)
(* last access to DATA while no other coroutine holds the event loop.      *)
(***************************************************************************)
\* the ids uuid4 generated since the process started, in the Store data
BornIn(data) ==
  {id \in IdsOf(data) : id \in born \/ (id \notin IdsOf(DATA) /\ IsUuid(id))}

\* The process answers request op(args) with the handler's result h.
Serve(op, args, h) ==
  /\ proc = "running"
  /\ running = 0
  /\ DATA' = h.data
  /\ resp' = h.resp
  /\ req' = [op |-> op, args |-> args]
  /\ born' = BornIn(h.data)
  /\ UNCHANGED <<file, proc, pc, frame, running>>

\* the environment's bound on posting
MayPost(entries) ==
  /\ PostedCount(DATA) + Len(entries) <= MaxPosted
  /\ Cardinality(FreeUuids(DATA)) >= Len(entries)

PostEntries(entries) ==
  /\ MayPost(entries)
  /\ Serve("POST /entries", entries, create_entries(DATA, entries))

\* root_post (main.py:82-84)
PostRoot(entries) ==
  /\ MayPost(entries)
  /\ Serve("POST /", entries, create_entries(DATA, entries))

PostUpload(upload) ==
  /\ MayPost(upload.rows)
  /\ Serve("POST /entries/upload", upload, create_entries_csv(DATA, upload))

GetEntries(query) ==
  Serve("GET /entries", query,
        filter_entries(DATA, query.date_from, query.date_to, query.category))

GetSummary(year_month) ==
  Serve("GET /summary", year_month, get_summary(DATA, year_month))

GetHealthz == Serve("GET /healthz", <<>>, health_check(DATA))

GetRoot == Serve("GET /", <<>>, root_entries(DATA))

PostSample ==
  /\ Len(DATA) + Len(examples) <= MaxStore
  /\ Cardinality(FreeUuids(DATA)) >= Len(examples)
  /\ Serve("POST /sample", <<>>, seed_sample(DATA))

PostClearData(confirm) == Serve("POST /clear_data", confirm, clear_data(DATA, confirm))

Idle == [r \in Reqs |-> "idle"]
NoLocals == [op |-> "none", args |-> <<>>, entries |-> <<>>, i |-> 0, created |-> <<>>]
NoFrame == [r \in Reqs |-> NoLocals]

\* The process has started with no data.json and serves requests.
Init ==
  /\ DATA = <<>>
  /\ file = NoFile
  /\ proc = "running"
  /\ born = {}
  /\ req = NoRequest
  /\ resp = NoResponse
  /\ pc = Idle
  /\ frame = NoFrame
  /\ running = 0

Next ==
  \/ \E entries \in Batches : PostEntries(entries)
  \/ \E entries \in RootBatches : PostRoot(entries)
  \/ \E upload \in Uploads : PostUpload(upload)
  \/ \E query \in Queries : GetEntries(query)
  \/ \E year_month \in YearMonths : GetSummary(year_month)
  \/ GetHealthz
  \/ GetRoot
  \/ PostSample
  \/ \E confirm \in BOOLEAN : PostClearData(confirm)

Spec == Init /\ [][Next]_vars

(***************************************************************************)
(* Properties of the requests.                                             *)
(***************************************************************************)
CreateOps == {"POST /entries", "POST /", "POST /entries/upload"}

ReadOps == {"GET /entries", "GET /summary", "GET /healthz"}

\* the entries of the body of a create request
BodyOf(request) ==
  IF request.op = "POST /entries/upload" THEN DictReader(request.args) ELSE request.args

\* a <= b for strs
StrLeq(a, b) == a = b \/ StrLess(a, b)

ExampleCount(data) == Cardinality({i \in 1..Len(data) : IsExample(data[i])})

\* C1: after every completed request the Store holds at most Limit (10,000)
\* entries.
C1_StoreAtMostLimit == Len(DATA) <= Limit

\* C2: a create request with a record that lacks date or amount is answered
\* 400 and leaves the Store as it was.
C2_RejectedBatchLeavesStore ==
  [][(/\ req'.op \in CreateOps
      /\ \E i \in 1..Len(BodyOf(req')) : MissingRequired(BodyOf(req')[i]))
     => (resp'.status = 400 /\ DATA' = DATA)]_vars

\* C3: an accepted create of batch B on Store S leaves S followed by B (each
\* record of B with its defaults, in the given order) when that has at most
\* Limit entries, and its last Limit entries otherwise.
C3_AcceptedCreateAppendsAndTrims ==
  [][(req'.op \in CreateOps /\ resp'.status = 200)
     => LET B == resp'.body.entries
            given == BodyOf(req')
        IN /\ Len(B) = Len(given)
           /\ \A i \in 1..Len(B) : \A k \in DOMAIN given[i] : B[i][k] = given[i][k]
           /\ DATA' = IF Len(DATA) + Len(B) <= Limit
                      THEN DATA \o B
                      ELSE SubSeq(DATA \o B, Len(DATA) + Len(B) - Limit + 1,
                                  Len(DATA) + Len(B))]_vars

\* An accepted create has evicted some of the seeded entries.
C3_TrimEvicted ==
  /\ req.op = "POST /entries"
  /\ resp.status = 200
  /\ resp.body.created > 0
  /\ Len(DATA) = Limit
  /\ ExampleCount(DATA) \in 1..(Len(examples) - 1)

\* C4: POST /clear_data without confirm leaves the Store unchanged and
\* answers 200 with status "error"; with confirm it empties the Store and
\* returns the previous size as cleared.
C4_ClearData ==
  [][(req'.op = "POST /clear_data")
     => IF req'.args
        THEN DATA' = <<>> /\ resp'.status = 200 /\ resp'.body.cleared = Len(DATA)
        ELSE DATA' = DATA /\ resp'.status = 200 /\ resp'.body.status = "error"]_vars

\* A confirmed clear has emptied a Store that held entries.
C4_Cleared ==
  /\ req.op = "POST /clear_data"
  /\ req.args
  /\ resp.body.cleared > 0
  /\ DATA = <<>>

\* the entries of data that satisfy every parameter of query that counts as
\* provided
Selected(data, query, Provided(_)) ==
  SelectSeq(data, LAMBDA e :
    /\ Provided(query.date_from) => StrLeq(query.date_from.s, e["date"].s)
    /\ Provided(query.date_to) => StrLeq(e["date"].s, query.date_to.s)
    /\ Provided(query.category) => e["category"] = query.category)

FilterLaw(Provided(_)) ==
  (req.op = "GET /entries" /\ resp.status = 200)
  => /\ resp.body.entries = Selected(DATA, req.args, Provided)
     /\ resp.body.total = Len(resp.body.entries)
     /\ Provided(req.args.category) => DictKeys(resp.body.categories) \subseteq {req.args.category}

IsGiven(param) == param # PyNone

\* C6 as stated: GET /entries returns the entries that satisfy every
\* parameter that is given.
C6_FilterAllGiven == FilterLaw(IsGiven)

\* C6 as amended: GET /entries returns, in insertion order, the entries that
\* satisfy every parameter that is given and not empty; total is their
\* number; with such a category the categories have no other key.
C6_FilterAllNonEmpty == FilterLaw(Truthy)

\* A query with all three parameters has selected some but not all entries.
C6_SomeSelected ==
  /\ req.op = "GET /entries"
  /\ resp.status = 200
  /\ Truthy(req.args.date_from) /\ Truthy(req.args.date_to) /\ Truthy(req.args.category)
  /\ resp.body.total > 0
  /\ resp.body.total < Len(DATA)

Parseable(entry) == "amount" \in DOMAIN entry /\ ToFloat(entry["amount"]).err = "none"

\* the sum of the parseable amounts of entries
RECURSIVE ParseableSum(_)
ParseableSum(entries) ==
  IF Len(entries) = 0 THEN 0
  ELSE (IF Parseable(Head(entries)) THEN ToFloat(Head(entries)["amount"]).val ELSE 0)
       + ParseableSum(Tail(entries))

\* C7: a GET /entries whose dates are well formed does not fail; total_amount
\* is the sum of the parseable amounts of the matched entries, categories
\* maps each category of a parseable matched entry to the sum of the
\* parseable amounts of that category, and every matched entry is counted
\* and listed.
C7_SumLaw ==
  (/\ req.op = "GET /entries"
   /\ ~(Truthy(req.args.date_from) /\ ~_is_valid_date_format(req.args.date_from.s))
   /\ ~(Truthy(req.args.date_to) /\ ~_is_valid_date_format(req.args.date_to.s)))
  => /\ resp.status = 200
     /\ LET matched == Selected(DATA, req.args, Truthy)
            parseable == SelectSeq(matched, Parseable)
        IN /\ resp.body.total = Len(matched)
           /\ resp.body.entries = matched
           /\ resp.body.total_amount = FloatStr(ParseableSum(matched))
           /\ DictKeys(resp.body.categories) = {e["category"] : e \in Range(parseable)}
           /\ \A c \in DictKeys(resp.body.categories) :
                DictGet(resp.body.categories, c, 0)
                  = ParseableSum(SelectSeq(matched, LAMBDA e : e["category"] = c))

\* The Store holds the seeded entries and nothing else.
FreshlySeeded ==
  /\ Len(DATA) = Len(examples)
  /\ \A i \in 1..Len(DATA) :
       /\ DATA[i]["date"].s = examples[i][1]
       /\ DATA[i]["category"].s = examples[i][2]
       /\ DATA[i]["amount"].s = examples[i][4]

January == <<"2", "0", "2", "3", "-", "0", "1">>

\* the float written by str(x) for an integral x >= 0
FloatOfStr(text) == DigitsVal(SubSeq(text, 1, Len(text) - 2))

SampleJanuary(total_entries) ==
  (FreshlySeeded /\ req.op = "GET /summary" /\ req.args = January)
  => /\ resp.status = 200
     /\ resp.body.total_entries = total_entries
     /\ resp.body.total_amount = <<"9", "5", "0", "0", ".", "0">>
     /\ \A i, j \in 1..Len(resp.body.categories) :
          i < j => FloatOfStr(resp.body.categories[i].amount)
                     >= FloatOfStr(resp.body.categories[j].amount)

\* C8 as stated: after POST /sample on an empty Store, GET /summary/2023-01
\* returns total_entries 2, total_amount "9500.0" and the categories by
\* descending amount.
C8_SampleJanuaryTwo == SampleJanuary(2)

\* C8 as amended: ... returns total_entries 3, total_amount "9500.0" and the
\* categories by descending amount.
C8_SampleJanuaryThree == SampleJanuary(3)

\* GET /summary/2023-01 was answered on the freshly seeded Store with the
\* two categories of January.
C8_JanuarySummarised ==
  /\ FreshlySeeded
  /\ req.op = "GET /summary"
  /\ req.args = January
  /\ resp.status = 200
  /\ Len(resp.body.categories) = 2

\* C9: GET /entries, GET /summary/{year_month} and GET /healthz leave the
\* Store unchanged, and a GET /entries that repeats the request before it
\* returns the same response.
C9_ReadsLeaveStore ==
  [][(req'.op \in ReadOps)
     => /\ DATA' = DATA
        /\ (req'.op = "GET /entries" /\ req' = req) => resp' = resp]_vars

\* A GET /entries has listed a part of a Store that holds more.
C9_ReadPartOfStore ==
  /\ req.op = "GET /entries"
  /\ resp.status = 200
  /\ resp.body.total < Len(DATA)
  /\ Len(DATA) = Limit

(***************************************************************************)
(* The process lifecycle (main.py:56-75).  DATA, born, req and resp of a   *)
(* process that is down keep the values they had when it went down.        *)
(***************************************************************************)
\* uvicorn starts the application: DATA = [] (main.py:50), then load_data
Startup ==
  /\ proc # "running"
  /\ proc' = "running"
  /\ DATA' = load_data(file)
  /\ born' = {}
  /\ req' = NoRequest
  /\ resp' = NoResponse
  /\ UNCHANGED <<file, pc, frame, running>>

\* a graceful stop: save_data
Shutdown ==
  /\ proc = "running"
  /\ running = 0
  /\ proc' = "stopped"
  /\ file' = save_data(DATA)
  /\ UNCHANGED <<DATA, born, req, resp, pc, frame, running>>

\* the process is killed: no shutdown event
Crash ==
  /\ proc = "running"
  /\ proc' = "crashed"
  /\ UNCHANGED <<DATA, file, born, req, resp, pc, frame, running>>

\* data.json is removed while the process is down
SnapshotRemoved ==
  /\ proc # "running"
  /\ file # NoFile
  /\ file' = NoFile
  /\ proc' = "damaged"
  /\ UNCHANGED <<DATA, born, req, resp, pc, frame, running>>

\* data.json is overwritten with text that is not JSON while the process is
\* down
SnapshotDamaged ==
  /\ proc # "running"
  /\ file # CorruptFile
  /\ file' = CorruptFile
  /\ proc' = "damaged"
  /\ UNCHANGED <<DATA, born, req, resp, pc, frame, running>>

\* JSON bodies posted in the lifecycle model
LifeBatches == {<<Lunch>>, <<Enormous, Lunch>>}

\* data.json does not exist and the process has not started.
LifeInit ==
  /\ DATA = <<>>
  /\ file = NoFile
  /\ proc = "new"
  /\ born = {}
  /\ req = NoRequest
  /\ resp = NoResponse
  /\ pc = Idle
  /\ frame = NoFrame
  /\ running = 0

LifeNext ==
  \/ Startup
  \/ Shutdown
  \/ Crash
  \/ SnapshotRemoved
  \/ SnapshotDamaged
  \/ \E entries \in LifeBatches : PostEntries(entries)
  \/ PostClearData(TRUE)
  \/ GetHealthz

LifeSpec == LifeInit /\ [][LifeNext]_vars

Awaits_before_trim(label) == label \in {"read", "trim"}

Awaits(label) == label \in {"read"}

\* Request r may take its next step.
MayRun(r) == running = r \/ (running = 0 /\ Awaits(pc[r]))

\* the holder of the loop once r has moved to label
After(r, label) == IF label = "idle" \/ Awaits(label) THEN 0 ELSE r

\* POST /entries is dispatched as request r: create_entries is entered
BeginPostEntries(r, entries) ==
  /\ proc = "running"
  /\ running = 0
  /\ pc[r] = "idle"
  /\ MayPost(entries)
  /\ pc' = [pc EXCEPT ![r] = "loop"]
  /\ frame' = [frame EXCEPT ![r] = [op |-> "POST /entries", args |-> entries,
                                    entries |-> entries, i |-> 1, created |-> <<>>]]
  /\ running' = After(r, "loop")
  /\ UNCHANGED <<DATA, file, proc, born, req, resp>>

\* POST /entries/upload is dispatched as request r: create_entries_csv runs
\* to `await file.read()`
BeginPostUpload(r) ==
  /\ proc = "running"
  /\ running = 0
  /\ pc[r] = "idle"
  /\ pc' = [pc EXCEPT ![r] = "read"]
  /\ running' = After(r, "read")
  /\ UNCHANGED <<DATA, file, proc, born, req, resp, frame>>

\* main.py:115-118: file.read() returns the upload
ReadUpload(r, upload) ==
  /\ pc[r] = "read"
  /\ MayRun(r)
  /\ MayPost(upload.rows)
  /\ IF upload.decodable
     THEN /\ pc' = [pc EXCEPT ![r] = "loop"]
          /\ frame' = [frame EXCEPT ![r] = [op |-> "POST /entries/upload", args |-> upload,
                                            entries |-> DictReader(upload),
                                            i |-> 1, created |-> <<>>]]
          /\ running' = After(r, "loop")
          /\ UNCHANGED <<req, resp>>
     ELSE /\ pc' = [pc EXCEPT ![r] = "idle"]
          /\ running' = After(r, "idle")
          /\ req' = [op |-> "POST /entries/upload", args |-> upload]
          /\ resp' = global_exception_handler("UnicodeDecodeError")
          /\ UNCHANGED frame
  /\ UNCHANGED <<DATA, file, proc, born>>

\* main.py:98-105: one iteration of the loop, or its end
LoopEntry(r) ==
  /\ pc[r] = "loop"
  /\ MayRun(r)
  /\ LET f == frame[r]
     IN IF f.i > Len(f.entries)
        THEN /\ pc' = [pc EXCEPT ![r] = "trim"]
             /\ running' = After(r, "trim")
             /\ UNCHANGED <<DATA, born, req, resp, frame>>
        ELSE IF MissingRequired(f.entries[f.i])
        THEN /\ pc' = [pc EXCEPT ![r] = "idle"]
             /\ running' = After(r, "idle")
             /\ frame' = [frame EXCEPT ![r] = NoLocals]
             /\ req' = [op |-> f.op, args |-> f.args]
             /\ resp' = CreateRaised
             /\ UNCHANGED <<DATA, born>>
        ELSE LET entry == Completed(f.entries[f.i], DATA)
             IN /\ DATA' = Append(DATA, entry)
                /\ born' = BornIn(Append(DATA, entry))
                /\ frame' = [frame EXCEPT ![r].i = f.i + 1,
                                          ![r].created = Append(f.created, entry)]
                /\ running' = After(r, "loop")
                /\ UNCHANGED <<pc, req, resp>>
  /\ UNCHANGED <<file, proc>>

\* main.py:108-109
TrimStore(r) ==
  /\ pc[r] = "trim"
  /\ MayRun(r)
  /\ DATA' = Trim(DATA)
  /\ born' = BornIn(Trim(DATA))
  /\ pc' = [pc EXCEPT ![r] = "return"]
  /\ running' = After(r, "return")
  /\ UNCHANGED <<file, proc, req, resp, frame>>

\* main.py:111
Return(r) ==
  /\ pc[r] = "return"
  /\ MayRun(r)
  /\ req' = [op |-> frame[r].op, args |-> frame[r].args]
  /\ resp' = CreateReturned(frame[r].created)
  /\ pc' = [pc EXCEPT ![r] = "idle"]
  /\ frame' = [frame EXCEPT ![r] = NoLocals]
  /\ running' = After(r, "idle")
  /\ UNCHANGED <<DATA, file, proc, born>>

\* JSON bodies posted in the event loop model
LoopBatches == {<<Lunch>>, <<Lunch, Enormous>>, <<Lunch, Free>>}

\* a step of request r
Runs(r) ==
  \/ \E entries \in LoopBatches : BeginPostEntries(r, entries)
  \/ BeginPostUpload(r)
  \/ \E upload \in Uploads : ReadUpload(r, upload)
  \/ LoopEntry(r)
  \/ TrimStore(r)
  \/ Return(r)

\* a request whose handler awaits nothing is served
Served ==
  \/ PostSample
  \/ PostClearData(TRUE)
  \/ GetHealthz

LoopNext ==
  \/ \E r \in Reqs : Runs(r)
  \/ Served

LoopSpec == Init /\ [][LoopNext]_vars

\* Request r is in create_entries, between its first statement and its
\* return.
InCreate(r) == pc[r] \in {"loop", "trim", "return"}

\* Some request other than r can take a step.
OtherCanRun(r) == ENABLED ((\E q \in Reqs \ {r} : Runs(q)) \/ Served)

\* the records of created are the last of data, as many as data holds
AtTheEnd(created, data) ==
  IF Len(created) >= Len(data)
  THEN data = LastN(created, Len(data))
  ELSE LastN(data, Len(created)) = created

\* C10 as stated: with several requests in flight, another request can run
\* between the appends of a create request and its trim.
C10_TrimNotAtomic ==
  \A r \in Reqs : (pc[r] = "trim" /\ frame[r].created # <<>>) => OtherCanRun(r)

\* C10 as amended: with several requests in flight, no other request runs
\* between the first statement of create_entries and its return, so when a
\* create request returns the Store holds at most Limit entries and ends
\* with that request's records, in order and with no other record among
\* them.
C10_CreateIsAtomic ==
  \A r \in Reqs :
    /\ InCreate(r) => ~OtherCanRun(r)
    /\ pc[r] = "return" => /\ Len(DATA) <= Limit
                           /\ AtTheEnd(frame[r].created, DATA)

\* A create request is about to return after a trim that evicted seeded
\* entries while an upload is in flight, suspended at file.read().
C10_ReturnsWhileUploadInFlight ==
  \E r, q \in Reqs :
    /\ pc[r] = "return"
    /\ frame[r].created # <<>>
    /\ pc[q] = "read"
    /\ Len(DATA) = Limit
    /\ ExampleCount(DATA) \in 1..(Len(examples) - 1)

====
